---- MODULE Spec2Model ----
(***************************************************************************)
(* Model of the Elemental Figma plugin (src/code.ts).  The source file     *)
(* holds several revisions of the plugin one after the other; the two that *)
(* contain the export orchestrator are modelled:                           *)
(*   revision "A": lines 1-476    (messages 'export', 'batch-export')      *)
(*   revision "C": lines 612-1137 (messages 'export', 'export-zip', and    *)
(*                 the selectionchange handler with the watchedNode slot)  *)
(* A handler activation that is suspended at `await node.exportAsync(..)`  *)
(* is a record in the bag invs; the host may deliver further events        *)
(* meanwhile.                                                              *)
(***************************************************************************)
EXTENDS Integers, Sequences, FiniteSets, Bags, TLC

\* ------------------------------------------------------------------ bounds
\* longest selection the host hands to the plugin
MaxSel == 3
\* number of export commands the UI sends in one run
MaxCmds == 2
\* cap on the 'changes' listeners counted per node
MaxListeners == 2


Revisions == {"A", "C"}

MsgTypes == {"export", "batch-export", "export-zip"}

null == 0

VARIABLES
  rev,          \* which revision of the plugin is running
  page,         \* the layers of the current page in layer order, by node.type
  selection,    \* figma.currentPage.selection
  invs,         \* bag of the activations of exportSelection / batchExportForZip
  onNodes,      \* the nodes for which ('on' in node) holds
  watchedNode,  \* let watchedNode (revision C)
  listeners,    \* per node, the 'changes' callbacks registered with node.on
  lastEvent,    \* the host event that last ran updateSelectionInfo
  updates,      \* updateSelectionInfo() calls made while handling lastEvent
  snapshot,     \* the 'selection-change' message posted last
  styles,       \* per node, its fills, strokes and effects
  handled,      \* the UI message (other than an export command) handled last
  hostTheme,    \* figma.currentUser.color as the host reports it
  lastKnownTheme, \* let lastKnownTheme (revision A)
  closed,       \* figma.closePlugin() has been called
  closeHandled, \* a 'close-plugin' message has been handled
  lastTick,     \* what the last run of the theme poll callback did, if it ran
  color,        \* a colour sample handed to the colour codec
  hexOut,       \* what rgbToHex returned for color, once it has been called
  hslOut,       \* what rgbToHsl returned for color, once it has been called
  storage,      \* the host's persistent storage as the preferences bridge sees it
  prefs,        \* what load() returned, once it has been called
  layerName,    \* a node's display name, as a sequence of characters
  fileName      \* the filename derived from layerName, once it has been derived

themeVars == <<hostTheme, lastKnownTheme, closed, closeHandled, lastTick>>

codecVars == <<color, hexOut>>

utilVars == <<hslOut, storage, prefs, layerName, fileName>>

vars ==
  <<rev, page, selection, invs, onNodes, watchedNode, listeners, lastEvent,
    updates, snapshot, styles, handled, themeVars, codecVars, utilVars>>

\* ------------------------------------------------------- the document
Nodes == 1..Len(page)

NodeType(n) == page[n]

\* figma.currentPage.selection: layers in layer order, no duplicates
Selections ==
  { s \in UNION { [1..k -> Nodes] : k \in 0..MaxSel } :
      \A i \in DOMAIN s : \A j \in DOMAIN s : i < j => s[i] < s[j] }


\* ------------------------------------------------------------- helpers
\* One observable effect of an activation: a figma.ui.postMessage, a
\* figma.notify or a node.exportAsync call.
Ev(type, text, node, a, b) ==
  [type |-> type, text |-> text, node |-> node, a |-> a, b |-> b]

Notify(text, count) == Ev("notify", text, null, count, 0)

\* node.exportAsync(setting): text is setting.format, b is 1 if the setting
\* has a constraint of type 'SCALE' and a is then its value
CallEv(node, setting) ==
  IF Len(setting.constraint) = 0
    THEN Ev("exportAsync", setting.format, node, 0, 0)
    ELSE Ev("exportAsync", setting.format, node, setting.constraint[1].value, 1)

OfType(trace, t) == SelectSeq(trace, LAMBDA e : e.type = t)

OfTypes(trace, ts) == SelectSeq(trace, LAMBDA e : e.type \in ts)

NodesOf(trace) == [i \in DOMAIN trace |-> trace[i].node]

Range(s) == { s[i] : i \in DOMAIN s }

\* ------------------------------------------------------- colour codec
\* A colour channel in [0,1] is held as a whole number of 510ths: v stands
\* for v/510, so that the 8-bit grid k/255 is 2k and half steps exist.
MaxChannel == 255

\* Math.round(p / q) for q > 0: the nearest integer, halves rounded up
RoundDiv(p, q) == (2 * p + q) \div (2 * q)

\* Math.round(value * 255)
Round255(v) == RoundDiv(v * MaxChannel, 2 * MaxChannel)

LowerDigits ==
  <<"0", "1", "2", "3", "4", "5", "6", "7", "8", "9", "a", "b", "c", "d", "e", "f">>

UpperDigits ==
  <<"0", "1", "2", "3", "4", "5", "6", "7", "8", "9", "A", "B", "C", "D", "E", "F">>

\* Number.prototype.toString(16), as a sequence of characters
RECURSIVE ToString16(_)
ToString16(n) ==
  IF n < 16 THEN <<LowerDigits[n + 1]>>
  ELSE ToString16(n \div 16) \o <<LowerDigits[(n % 16) + 1]>>

\* String.prototype.toUpperCase on a sequence of hex characters
UpperChars(str) ==
  [ i \in DOMAIN str |->
      IF \E d \in DOMAIN LowerDigits : LowerDigits[d] = str[i]
        THEN UpperDigits[CHOOSE d \in DOMAIN LowerDigits : LowerDigits[d] = str[i]]
        ELSE str[i] ]

\* variant: no zero padding of a one-digit channel
toHexUnpadded(value) == ToString16(Round255(value))

\* const toHex = (value) => ...
toHex(value) ==
  LET hex == ToString16(Round255(value)) IN
  IF Len(hex) = 1 THEN <<"0">> \o hex ELSE hex

rgbToHex(r, g, b) == UpperChars(<<"#">> \o toHex(r) \o toHex(g) \o toHex(b))

Max3(r, g, b) == CHOOSE m \in {r, g, b} : \A v \in {r, g, b} : v <= m

Min3(r, g, b) == CHOOSE m \in {r, g, b} : \A v \in {r, g, b} : v >= m

\* variant: the lightness percentage is truncated, not rounded
rgbToHslTruncated(r, g, b) ==
  <<"hsl", 0, 0, (100 * (Max3(r, g, b) + Min3(r, g, b))) \div (4 * MaxChannel)>>

\* rgbToHsl: the three numbers of the string `hsl(H, S%, L%)`
rgbToHsl(r, g, b) ==
  LET max == Max3(r, g, b)
      min == Min3(r, g, b)
      d == max - min
      unit == 2 * MaxChannel
      sDen == IF max + min > unit THEN 2 * unit - max - min ELSE max + min
      hNum == IF max = r THEN (g - b) + (IF g < b THEN 6 * d ELSE 0)
              ELSE IF max = g THEN (b - r) + 2 * d
              ELSE (r - g) + 4 * d
  IN <<"hsl",
       IF max # min THEN RoundDiv(60 * hNum, d) ELSE 0,
       IF max # min THEN RoundDiv(100 * d, sDen) ELSE 0,
       RoundDiv(100 * (max + min), 2 * unit)>>

\* getColorFromFill: null, or the representations of a solid paint's colour
getColorFromFill(fill) ==
  IF fill.type = "SOLID" /\ fill.color # <<>>
    THEN LET c == fill.color[1] IN
         <<[ hex |-> rgbToHex(c.r, c.g, c.b),
             hsl |-> rgbToHsl(c.r, c.g, c.b),
             rgb |-> <<"rgb", Round255(c.r), Round255(c.g), Round255(c.b)>>,
             css |-> rgbToHex(c.r, c.g, c.b) ]>>
    ELSE <<>>

\* --------------------------------------------------- export orchestrator
exportableTypes ==
  { "FRAME", "GROUP", "COMPONENT", "COMPONENT_SET", "INSTANCE", "RECTANGLE",
    "ELLIPSE", "POLYGON", "STAR", "VECTOR", "TEXT", "LINE" }

\* variant: the allow-list check lets every kind through
canExportAnyNode(n) == TRUE

canExportNode(n) == NodeType(n) \in exportableTypes

\* const formats = ['PNG', 'JPG', 'SVG', 'PDF']: the formats the plugin
\* offers to the UI, from which msg.format is chosen
Formats == {"PNG", "JPG", "SVG", "PDF"}

\* the scales the UI offers (msg.scale)
Scales == {1, 2}

\* String.prototype.toUpperCase on a format name
ToUpperCase(str) ==
  CASE str = "png" -> "PNG"
    [] str = "jpg" -> "JPG"
    [] str = "svg" -> "SVG"
    [] str = "pdf" -> "PDF"
    [] OTHER -> str

\* variant: the scale constraint is added for every format
ExportSettingAlwaysScaled(format, scale) ==
  [ format |-> ToUpperCase(format),
    constraint |-> <<[type |-> "SCALE", value |-> scale]>> ]

\* `let exportSetting`: the settings handed to node.exportAsync; constraint
\* is empty when the setting has none
ExportSetting(format, scale) ==
  IF format = "SVG" THEN [format |-> "SVG", constraint |-> <<>>]
  ELSE IF format = "PDF" THEN [format |-> "PDF", constraint |-> <<>>]
  ELSE [ format |-> ToUpperCase(format),
         constraint |-> <<[type |-> "SCALE", value |-> scale]>> ]

\* A fresh activation: kind is "export" or "batch", sel is the selection read
\* on entry, scale and format the arguments, nodes the list the for-loop
\* iterates, i the loop position, trace the posts, notices and host export
\* calls the activation has made so far.
Activation(kind, sel, scale, format) ==
  [ kind |-> kind, sel |-> sel, scale |-> scale, format |-> format,
    nodes |-> <<>>, i |-> 1, pc |-> "run",
    successCount |-> 0, errorNodes |-> <<>>, trace |-> <<>> ]

Emit(inv, e) == [inv EXCEPT !.trace = Append(@, e)]

\* early return after a precondition notice
Reject(inv, text) == [Emit(inv, Notify(text, 0)) EXCEPT !.pc = "done"]

\* variant: the loop reads the live selection at each element
CallExportAsyncLive(inv) ==
  LET live == IF inv.kind = "export" THEN selection
              ELSE SelectSeq(selection, LAMBDA n : page[n] \in exportableTypes)
      node == IF inv.i <= Len(live) THEN live[inv.i] ELSE inv.nodes[inv.i]
  IN [Emit(inv, CallEv(node, ExportSetting(inv.format, inv.scale))) EXCEPT !.pc = "await"]

\* `const bytes = await node.exportAsync(exportSetting)`: the call is made and
\* the activation is suspended until the host resolves or rejects it
CallExportAsync(inv) ==
  [Emit(inv, CallEv(inv.nodes[inv.i], ExportSetting(inv.format, inv.scale)))
     EXCEPT !.pc = "await"]

\* if (!canExportNode(node)) { errorNodes.push(...); continue; }
SkipNotExportable(inv) ==
  [inv EXCEPT !.errorNodes = Append(@, inv.nodes[inv.i]), !.i = @ + 1]

\* variant: the catch block sits outside the loop, a failure ends the loop
ExportFailedEndsLoop(inv) ==
  [inv EXCEPT !.errorNodes = Append(@, inv.nodes[inv.i]), !.i = Len(inv.nodes) + 1]

\* catch (nodeError) { ...; errorNodes.push(...) }, then the next iteration
ExportFailed(inv) ==
  [inv EXCEPT !.errorNodes = Append(@, inv.nodes[inv.i]), !.i = @ + 1]

\* postMessage({type: 'file-ready', ...}); successCount++, then the next iteration
ExportSucceeded(inv) ==
  [Emit(inv, Ev("file-ready", inv.format, inv.nodes[inv.i], 0, 0))
     EXCEPT !.successCount = @ + 1, !.i = @ + 1]

\* the feedback after the loop of exportSelection
FinishSingle(inv) ==
  LET a == IF inv.successCount > 0
             THEN Emit(inv, Notify("Exported file(s) successfully!", inv.successCount))
             ELSE inv
      b == IF Len(inv.errorNodes) > 0 /\ inv.successCount = 0
             THEN Emit(a, Notify("Cannot export selected layer type(s). Try selecting frames, groups, or components.", 0))
             ELSE a
  IN  [b EXCEPT !.pc = "done"]

\* the for-loop of exportSelection, run from position i up to the next await
\* or to the end of the function
RECURSIVE LoopSingle(_)
LoopSingle(inv) ==
  IF inv.i > Len(inv.nodes) THEN FinishSingle(inv)
  ELSE IF ~canExportNode(inv.nodes[inv.i]) THEN LoopSingle(SkipNotExportable(inv))
  ELSE CallExportAsync(inv)

\* variant: no check for the empty selection
exportSelectionNoEmptyCheck(sel, scale, format) ==
  LoopSingle([Activation("export", sel, scale, format) EXCEPT !.nodes = sel])

\* exportSelection(scale, format) entered while the selection is sel
exportSelection(sel, scale, format) ==
  LET inv == Activation("export", sel, scale, format) IN
  IF Len(sel) = 0
    THEN Reject(inv, "Please select a layer to export")
    ELSE LoopSingle([inv EXCEPT !.nodes = sel])

\* the per-file message of batchExportForZip
BatchFileType(r) == IF r = "A" THEN "zip-file-ready" ELSE "zip-batch-file"

BatchSucceeded(r, inv) ==
  [Emit(inv, Ev(BatchFileType(r), inv.format, inv.nodes[inv.i], 0, 0))
     EXCEPT !.successCount = @ + 1, !.i = @ + 1]

\* what batchExportForZip does after its loop
FinishBatch(r, inv) ==
  LET c == IF r = "A"
             THEN Emit(inv, Ev("zip-batch-complete", "", null,
                               inv.successCount, Len(inv.errorNodes)))
             ELSE inv
      a == IF inv.successCount > 0
             THEN Emit(c, Notify("Prepared files for zip download!", inv.successCount))
             ELSE c
      b == IF r = "C" /\ Len(inv.errorNodes) > 0 /\ inv.successCount = 0
             THEN Emit(a, Notify("Cannot export selected layer types for zip. Try selecting frames, groups, or components.", 0))
             ELSE a
  IN  [b EXCEPT !.pc = "done"]

\* the for-loop of batchExportForZip from position i
LoopBatch(r, inv) ==
  IF inv.i > Len(inv.nodes) THEN FinishBatch(r, inv) ELSE CallExportAsync(inv)

\* variant: the batch keeps every selected node
UnfilteredNodes(nodes) == nodes

\* const exportableNodes = nodes.filter(canExportNode)
ExportableNodes(nodes) == SelectSeq(nodes, canExportNode)

\* variant: expectedFiles counts the selected nodes, not the exportable ones
BatchStartCountsSelection(inv) ==
  Emit(inv, Ev("zip-batch-start", "", null, Len(inv.sel), Len(inv.sel)))

\* postMessage({type: 'zip-batch-start', expectedFiles, zipName}); b is the
\* item count the zip name carries
BatchStart(inv) ==
  Emit(inv, Ev("zip-batch-start", "", null, Len(inv.nodes), Len(inv.nodes)))

\* variant: no check for an empty list of exportable nodes
batchExportForZipNoExportableCheck(r, sel, scale, format) ==
  LET inv == Activation("batch", sel, scale, format) IN
  IF Len(sel) = 0 THEN Reject(inv, "Please select layers to export as zip")
  ELSE IF Len(sel) = 1 THEN Reject(inv, "Select multiple layers to create a zip file")
  ELSE LoopBatch(r, BatchStart([inv EXCEPT !.nodes = ExportableNodes(sel)]))

\* variant: no check for a selection of one element
batchExportForZipNoSingleCheck(r, sel, scale, format) ==
  LET inv == Activation("batch", sel, scale, format) IN
  IF Len(sel) = 0 THEN Reject(inv, "Please select layers to export as zip")
  ELSE LET exportableNodes == ExportableNodes(sel) IN
       IF Len(exportableNodes) = 0 THEN Reject(inv, "No exportable layers selected")
       ELSE LoopBatch(r, BatchStart([inv EXCEPT !.nodes = exportableNodes]))

\* batchExportForZip(scale, format) entered while the selection is sel
batchExportForZip(r, sel, scale, format) ==
  LET inv == Activation("batch", sel, scale, format) IN
  IF Len(sel) = 0 THEN Reject(inv, "Please select layers to export as zip")
  ELSE IF Len(sel) = 1 THEN Reject(inv, "Select multiple layers to create a zip file")
  ELSE LET exportableNodes == ExportableNodes(sel) IN
       IF Len(exportableNodes) = 0 THEN Reject(inv, "No exportable layers selected")
       ELSE LoopBatch(r, BatchStart([inv EXCEPT !.nodes = exportableNodes]))

\* the continuation of a suspended activation once the host settles the call
Resume(r, inv, ok) ==
  IF inv.kind = "export"
    THEN LoopSingle(IF ok THEN ExportSucceeded(inv) ELSE ExportFailed(inv))
    ELSE LoopBatch(r, IF ok THEN BatchSucceeded(r, inv) ELSE ExportFailed(inv))

\* figma.ui.onmessage: the activation a message starts, if any
Dispatch(r, msg, sel) ==
  IF msg.type = "export" THEN <<exportSelection(sel, msg.scale, msg.format)>>
  ELSE IF (r = "A" /\ msg.type = "batch-export") \/ (r = "C" /\ msg.type = "export-zip")
    THEN <<batchExportForZip(r, sel, msg.scale, msg.format)>>
  ELSE <<>>

\* ------------------------------------------------- selection tracking
\* a paint or effect list property of a node: isArray is false when the node
\* has no such property or its value is figma.mixed
ListProp(items) == [isArray |-> TRUE, items |-> items]

NoListProp == [isArray |-> FALSE, items |-> <<>>]

\* a node without fills, strokes and effects
PlainStyle == [fills |-> ListProp(<<>>), strokes |-> ListProp(<<>>), effects |-> ListProp(<<>>)]

\* before the first UI message
NoMessage == [type |-> "", logs |-> 0, posts |-> <<>>, changed |-> FALSE]

\* bounds of the paint and effect lists a node is given
MaxPaints == 2

MaxEffects == 2

Red == [r |-> 2 * MaxChannel, g |-> 0, b |-> 0]

Teal == [r |-> 0, g |-> 2 * 128, b |-> 2 * 10]

\* a Paint: visible is "true", "false" or "undefined"; color is absent (<<>>)
\* on paints that are not solid
Paint(type, visible, c) == [type |-> type, visible |-> visible, color |-> c]

PaintInputs ==
  { Paint("SOLID", "true", <<Red>>),
    Paint("SOLID", "false", <<Teal>>),
    Paint("GRADIENT_LINEAR", "true", <<>>) }

\* an Effect; offset, radius and spread may be absent (<<>>)
Effect(type, visible, c, offset, radius, spread) ==
  [ type |-> type, visible |-> visible, color |-> c,
    offset |-> offset, radius |-> radius, spread |-> spread ]

EffectInputs ==
  { Effect("DROP_SHADOW", "true", <<Red>>, <<[x |-> 2, y |-> 4]>>, <<6>>, <<1>>),
    Effect("INNER_SHADOW", "undefined", <<Teal>>, <<>>, <<>>, <<>>),
    Effect("DROP_SHADOW", "false", <<Teal>>, <<[x |-> 0, y |-> 3]>>, <<5>>, <<>>),
    Effect("LAYER_BLUR", "true", <<>>, <<>>, <<8>>, <<>>) }

SeqsUpTo(S, n) == UNION { [1..k -> S] : k \in 0..n }

PaintProps == { ListProp(items) : items \in SeqsUpTo(PaintInputs, MaxPaints) } \cup {NoListProp}

EffectProps == { ListProp(items) : items \in SeqsUpTo(EffectInputs, MaxEffects) } \cup {NoListProp}

\* one solid fill, one solid stroke, one drop shadow
BaseStyle ==
  [ fills |-> ListProp(<<Paint("SOLID", "true", <<Teal>>)>>),
    strokes |-> ListProp(<<Paint("SOLID", "true", <<Red>>)>>),
    effects |-> ListProp(<<Effect("DROP_SHADOW", "true", <<Red>>, <<[x |-> 2, y |-> 4]>>, <<6>>, <<1>>)>>) ]

\* a node that has none of the three properties (a slice)
BareStyle == [fills |-> NoListProp, strokes |-> NoListProp, effects |-> NoListProp]

\* the styles node 1 is given: one of its three properties varies
StyleInputs ==
  { [BaseStyle EXCEPT !.fills = f] : f \in PaintProps }
    \cup { [BaseStyle EXCEPT !.strokes = f] : f \in PaintProps }
    \cup { [BaseStyle EXCEPT !.effects = e] : e \in EffectProps }

\* variant: hidden paints are left out
VisibleSolidPaints(items) ==
  SelectSeq(items, LAMBDA p : p.type = "SOLID" /\ p.visible # "false")

\* .filter(fill => fill.type === 'SOLID')
SolidPaints(items) == SelectSeq(items, LAMBDA p : p.type = "SOLID")

\* { r, g, b, hex: rgbToHex(r, g, b) }
ColorWithHex(c) == [r |-> c.r, g |-> c.g, b |-> c.b, hex |-> rgbToHex(c.r, c.g, c.b)]

\* variant: the first solid paint's colour however many there are
AnalyzePaintsFirstSolid(prop) ==
  LET solid == SolidPaints(prop.items) IN
  [ count |-> Len(solid),
    color |-> IF Len(solid) >= 1 /\ solid[1].color # <<>>
                THEN <<ColorWithHex(solid[1].color[1])>> ELSE <<>> ]

\* the fills (or strokes) block of updateSelectionInfo: the count and colour
AnalyzePaints(prop) ==
  IF ~prop.isArray THEN [count |-> 0, color |-> <<>>]
  ELSE LET solid == SolidPaints(prop.items) IN
       [ count |-> Len(solid),
         color |-> IF Len(solid) = 1 /\ solid[1].color # <<>>
                     THEN <<ColorWithHex(solid[1].color[1])>> ELSE <<>> ]

\* value || 0 for an optional number
OrZero(opt) == IF opt = <<>> THEN 0 ELSE opt[1]

\* the .map callback of the effects block
ShadowOf(e) ==
  [ x |-> IF e.offset = <<>> THEN 0 ELSE e.offset[1].x,
    y |-> IF e.offset = <<>> THEN 0 ELSE e.offset[1].y,
    blur |-> OrZero(e.radius),
    spread |-> OrZero(e.spread),
    color |-> e.color[1],
    type |-> IF e.type = "INNER_SHADOW" THEN "INNER" ELSE "OUTER" ]

\* variant: only the first qualifying shadow is reported
ShadowsFirstOnly(prop) ==
  LET valid == SelectSeq(prop.items, LAMBDA e :
                 /\ e.type \in {"DROP_SHADOW", "INNER_SHADOW"}
                 /\ e.visible # "false" /\ e.color # <<>>)
  IN IF Len(valid) > 0 THEN <<<<ShadowOf(valid[1])>>>> ELSE <<>>

\* the effects block of updateSelectionInfo: null (<<>>) or the shadow list
Shadows(prop) ==
  IF ~prop.isArray THEN <<>>
  ELSE LET shadowEffects ==
             SelectSeq(prop.items, LAMBDA e : e.type \in {"DROP_SHADOW", "INNER_SHADOW"})
           valid ==
             SelectSeq(shadowEffects, LAMBDA e : e.visible # "false" /\ e.color # <<>>)
       IN IF Len(shadowEffects) > 0 /\ Len(valid) > 0
            THEN <<[i \in DOMAIN valid |-> ShadowOf(valid[i])]>>
            ELSE <<>>

\* variant: the single-element analysis runs on the first of any selection
updateSelectionInfoAnyCount(sel) ==
  LET single == Len(sel) >= 1
      fill == IF single THEN AnalyzePaints(styles[sel[1]].fills) ELSE AnalyzePaints(NoListProp)
      stroke == IF single THEN AnalyzePaints(styles[sel[1]].strokes) ELSE AnalyzePaints(NoListProp)
  IN [ type |-> "selection-change", selectionCount |-> Len(sel), formats |-> Formats,
       fillColor |-> fill.color, strokeColor |-> stroke.color,
       shadow |-> IF single THEN Shadows(styles[sel[1]].effects) ELSE <<>>,
       fillCount |-> fill.count, strokeCount |-> stroke.count ]

\* updateSelectionInfo: the 'selection-change' message it posts
updateSelectionInfo(sel) ==
  LET single == Len(sel) = 1
      fill == IF single THEN AnalyzePaints(styles[sel[1]].fills) ELSE AnalyzePaints(NoListProp)
      stroke == IF single THEN AnalyzePaints(styles[sel[1]].strokes) ELSE AnalyzePaints(NoListProp)
  IN [ type |-> "selection-change", selectionCount |-> Len(sel), formats |-> Formats,
       fillColor |-> fill.color, strokeColor |-> stroke.color,
       shadow |-> IF single THEN Shadows(styles[sel[1]].effects) ELSE <<>>,
       fillCount |-> fill.count, strokeCount |-> stroke.count ]

\* ------------------------------------------------------------- actions
\* The state once the top-level code of the plugin has run: nothing is
\* exported yet, no node is watched, and updateSelectionInfo() has run once.
InitCommon ==
  /\ rev \in Revisions
  /\ page = <<"FRAME", "SLICE", "TEXT">>
  /\ selection \in Selections
  /\ invs = EmptyBag
  /\ watchedNode = null
  /\ listeners = [n \in Nodes |-> 0]
  /\ lastEvent = [type |-> "startup", node |-> null]
  /\ updates = 1
  /\ snapshot = updateSelectionInfo(selection)

\* storage in which no key has been written
EmptyStorage ==
  [fails |-> FALSE, scale |-> <<>>, format |-> <<>>, fillFormat |-> <<>>, strokeFormat |-> <<>>]

\* the colour, preference and filename helpers have not been used
InitUtil ==
  /\ hslOut = <<>>
  /\ storage = EmptyStorage
  /\ prefs = <<>>
  /\ layerName = <<>>
  /\ fileName = <<>>

\* no UI message handled yet, the theme as at startup, the codec unused
InitIdle ==
  /\ InitUtil
  /\ handled = NoMessage
  /\ hostTheme = "LIGHT"
  /\ lastKnownTheme = hostTheme
  /\ closed = FALSE
  /\ closeHandled = FALSE
  /\ lastTick = <<>>
  /\ color = [r |-> 0, g |-> 0, b |-> 0]
  /\ hexOut = <<>>

\* a document whose nodes have no `on` method, no paints and no effects
Init ==
  /\ styles = [n \in 1..3 |-> PlainStyle]
  /\ InitCommon
  /\ onNodes = {}
  /\ InitIdle

\* a document in which some nodes have an `on` method
InitWatch ==
  /\ styles = [n \in 1..3 |-> PlainStyle]
  /\ InitCommon
  /\ onNodes \in SUBSET Nodes
  /\ InitIdle

\* the UI posts an export command; the handler runs up to its first await
OnMessage(msg) ==
  /\ ~closed
  /\ BagCardinality(invs) < MaxCmds
  /\ Dispatch(rev, msg, selection) # <<>>
  /\ invs' = invs (+) SetToBag(Range(Dispatch(rev, msg, selection)))
  /\ UNCHANGED <<rev, page, selection, onNodes, watchedNode, listeners,
                 lastEvent, updates, snapshot, styles, handled, themeVars, codecVars, utilVars>>

\* the host resolves (ok) or rejects the pending exportAsync of activation inv
ExportReturn(inv, ok) ==
  /\ ~closed
  /\ inv \in BagToSet(invs)
  /\ inv.pc = "await"
  /\ invs' = (invs (-) SetToBag({inv})) (+) SetToBag({Resume(rev, inv, ok)})
  /\ UNCHANGED <<rev, page, selection, onNodes, watchedNode, listeners,
                 lastEvent, updates, snapshot, styles, handled, themeVars, codecVars, utilVars>>

\* `if (watchedNode && watchedNode !== newSelectedNode) watchedNode = null`
ClearWatched(watched, newSelectedNode) ==
  IF watched # null /\ watched # newSelectedNode THEN null ELSE watched

\* the host changes the selection and runs the 'selectionchange' handler:
\* updateSelectionInfo alone in revision A; in revision C the watchedNode
\* bookkeeping and node.on('changes', ...) first (raised: node.on throws)
SelectionChange(newSel, raised) ==
  LET newSelectedNode == IF Len(newSel) = 1 THEN newSel[1] ELSE null
      cleared == ClearWatched(watchedNode, newSelectedNode)
      attach == /\ rev = "C"
                /\ newSelectedNode # null
                /\ newSelectedNode \in onNodes
                /\ newSelectedNode # cleared
  IN
  /\ ~closed
  /\ newSel # selection
  /\ attach => listeners[newSelectedNode] < MaxListeners
  /\ ~attach => ~raised
  /\ selection' = newSel
  /\ watchedNode' =
       IF rev # "C" THEN watchedNode
       ELSE IF newSelectedNode # null /\ newSelectedNode \in onNodes
         THEN (IF attach THEN newSelectedNode ELSE cleared)
       ELSE null
  /\ listeners' =
       IF attach /\ ~raised
         THEN [listeners EXCEPT ![newSelectedNode] = @ + 1]
         ELSE listeners
  /\ lastEvent' = [type |-> "selectionchange", node |-> null]
  /\ updates' = 1
  /\ snapshot' = updateSelectionInfo(newSel)
  /\ UNCHANGED <<rev, page, invs, onNodes, styles, handled, themeVars, codecVars, utilVars>>

\* the host reports a change of node n: every callback registered with
\* n.on('changes', ...) runs updateSelectionInfo()
NodeChanged(n) ==
  /\ ~closed
  /\ lastEvent' = [type |-> "changes", node |-> n]
  /\ updates' = listeners[n]
  /\ snapshot' = IF listeners[n] > 0 THEN updateSelectionInfo(selection) ELSE snapshot
  /\ UNCHANGED <<rev, page, selection, invs, onNodes, watchedNode, listeners,
                 styles, handled, themeVars, codecVars, utilVars>>

\* ------------------------------------------- the other UI messages
Themes == {"DARK", "LIGHT"}

\* the keys of colorData a 'copy-fill-color' message names; "" is no format
ClipFormats == {"", "hex", "hsl", "rgb", "css"}

\* the message types the UI sends besides the export commands
OtherMsgTypes ==
  {"copy-color", "get-selection", "get-theme", "copy-fill-color", "close-plugin",
   "save-settings"}

Post(type, value) == [type |-> type, value |-> value]

\* figma.currentUser?.color === 'DARK' ? 'dark' : 'light', posted as 'theme-changed'
sendThemeToUI(c) == Post("theme-changed", <<IF c = "DARK" THEN "dark" ELSE "light">>)

\* node.fills.find(fill => fill.type === 'SOLID')
FindSolid(items) ==
  LET idx == { i \in DOMAIN items : items[i].type = "SOLID" } IN
  IF idx = {} THEN <<>>
  ELSE <<items[CHOOSE i \in idx : \A j \in idx : i <= j]>>

\* the 'copy-fill-color' branch: the messages it posts
copyFillColor(sel, format) ==
  IF Len(sel) > 0 /\ styles[sel[1]].fills.isArray
    THEN LET solidFill == FindSolid(styles[sel[1]].fills.items)
             colorData == IF solidFill # <<>> THEN getColorFromFill(solidFill[1]) ELSE <<>>
             key == IF format = "" THEN "hex" ELSE format
         IN IF colorData # <<>>
              THEN <<Post("copy-to-clipboard", colorData[1][key])>>
              ELSE <<>>
    ELSE <<>>

\* a branch that does nothing
Quiet == [logs |-> 0, posts |-> <<>>, update |-> FALSE, close |-> FALSE]

\* figma.ui.onmessage for a message that is not an export command
HandleOther(r, msg, sel, theme) ==
  IF r = "A" THEN
    IF msg.type = "copy-color" THEN Quiet
    ELSE IF msg.type = "get-selection" THEN [Quiet EXCEPT !.update = TRUE]
    ELSE IF msg.type = "get-theme" THEN [Quiet EXCEPT !.posts = <<sendThemeToUI(theme)>>]
    ELSE [Quiet EXCEPT !.logs = 1]
  ELSE
    IF msg.type = "copy-fill-color"
      THEN [Quiet EXCEPT !.posts = copyFillColor(sel, msg.format)]
    ELSE IF msg.type = "close-plugin" THEN [Quiet EXCEPT !.close = TRUE]
    ELSE Quiet

\* the message types onmessage has a branch for
Recognised(r) ==
  IF r = "A" THEN {"export", "batch-export", "copy-color", "get-selection", "get-theme"}
  ELSE {"export", "export-zip", "copy-fill-color", "close-plugin"}

\* the UI sends a message that starts no export
UiMessage(msg) ==
  LET h == HandleOther(rev, msg, selection, hostTheme) IN
  /\ ~closed
  /\ Dispatch(rev, msg, selection) = <<>>
  /\ closed' = h.close
  /\ closeHandled' = (closeHandled \/ msg.type = "close-plugin")
  /\ IF h.update
       THEN /\ lastEvent' = [type |-> "get-selection", node |-> null]
            /\ updates' = 1
            /\ snapshot' = updateSelectionInfo(selection)
       ELSE UNCHANGED <<lastEvent, updates, snapshot>>
  /\ UNCHANGED <<rev, page, selection, invs, onNodes, watchedNode, listeners,
                 styles, hostTheme, lastKnownTheme, lastTick, codecVars, utilVars>>
  /\ handled' =
       [ type |-> msg.type,
         logs |-> h.logs,
         posts |-> IF h.update THEN <<Post("selection-change", <<>>)>> ELSE h.posts,
         changed |-> <<selection', watchedNode', listeners', invs', lastKnownTheme'>>
                       # <<selection, watchedNode, listeners, invs, lastKnownTheme>> ]

\* the user switches the editor theme
ThemeChange(c) ==
  /\ ~closed
  /\ c # hostTheme
  /\ hostTheme' = c
  /\ UNCHANGED <<rev, page, selection, invs, onNodes, watchedNode, listeners,
                 lastEvent, updates, snapshot, styles, handled, lastKnownTheme,
                 closed, closeHandled, lastTick, codecVars, utilVars>>

\* variant: the callback posts the theme at every tick
PollTickAlwaysPosts ==
  /\ rev = "A"
  /\ ~closed
  /\ lastKnownTheme' = hostTheme
  /\ lastTick' = <<[ posts |-> <<sendThemeToUI(hostTheme)>>,
                     host |-> hostTheme,
                     known |-> lastKnownTheme,
                     afterClose |-> closeHandled ]>>
  /\ UNCHANGED <<rev, page, selection, invs, onNodes, watchedNode, listeners,
                 lastEvent, updates, snapshot, styles, handled, hostTheme,
                 closed, closeHandled, codecVars, utilVars>>

\* the setInterval callback of revision A runs; the interval is never
\* cleared. lastTick keeps what the callback read (host, known) and posted
PollTick ==
  /\ rev = "A"
  /\ ~closed
  /\ lastKnownTheme' = hostTheme
  /\ lastTick' = <<[ posts |-> IF hostTheme # lastKnownTheme
                                 THEN <<sendThemeToUI(hostTheme)>> ELSE <<>>,
                     host |-> hostTheme,
                     known |-> lastKnownTheme,
                     afterClose |-> closeHandled ]>>
  /\ UNCHANGED <<rev, page, selection, invs, onNodes, watchedNode, listeners,
                 lastEvent, updates, snapshot, styles, handled, hostTheme,
                 closed, closeHandled, codecVars, utilVars>>

Next ==
  \/ \E type \in MsgTypes : OnMessage([type |-> type, scale |-> 2, format |-> "PNG"])
  \/ \E inv \in BagToSet(invs) : \E ok \in BOOLEAN : ExportReturn(inv, ok)
  \/ \E newSel \in Selections : SelectionChange(newSel, FALSE)

Spec == Init /\ [][Next]_vars

NextWatch ==
  \/ \E newSel \in Selections : \E raised \in BOOLEAN : SelectionChange(newSel, raised)
  \/ \E n \in Nodes : NodeChanged(n)

SpecWatch == InitWatch /\ [][NextWatch]_vars

\* export commands with every format and scale the UI offers
NextFormat ==
  \/ \E type \in MsgTypes : \E scale \in Scales : \E format \in Formats :
       OnMessage([type |-> type, scale |-> scale, format |-> format])
  \/ \E inv \in BagToSet(invs) : \E ok \in BOOLEAN : ExportReturn(inv, ok)

SpecFormat == Init /\ [][NextFormat]_vars

\* ------------------------------------ a page with non-exportable nodes
\* a document with two nodes of kinds outside the allow-list and a frame
InitSlices ==
  /\ rev \in Revisions
  /\ page = <<"SLICE", "STICKY", "FRAME">>
  /\ selection \in Selections
  /\ invs = EmptyBag
  /\ watchedNode = null
  /\ listeners = [n \in Nodes |-> 0]
  /\ lastEvent = [type |-> "startup", node |-> null]
  /\ updates = 1
  /\ styles = [n \in 1..3 |-> PlainStyle]
  /\ snapshot = updateSelectionInfo(selection)
  /\ onNodes = {}
  /\ InitIdle

SpecSlices == InitSlices /\ [][Next]_vars

\* ---------------------------------------------- the selection analyzer
\* a document whose first node has one of the styles of StyleInputs
InitStyle ==
  /\ styles \in { [n \in 1..3 |-> IF n = 1 THEN s ELSE IF n = 2 THEN BareStyle ELSE BaseStyle] :
                    s \in StyleInputs }
  /\ InitCommon
  /\ onNodes = {}
  /\ InitIdle

NextStyle ==
  \/ \E newSel \in Selections : SelectionChange(newSel, FALSE)
  \/ UiMessage([type |-> "get-selection", scale |-> 1, format |-> ""])
  \/ \E format \in ClipFormats :
       UiMessage([type |-> "copy-fill-color", scale |-> 1, format |-> format])

SpecStyle == InitStyle /\ [][NextStyle]_vars

\* ------------------------------------------- theme polling and messages
InitTheme ==
  /\ InitUtil
  /\ styles = [n \in 1..3 |-> BaseStyle]
  /\ InitCommon
  /\ selection \in {<<>>, <<1>>}
  /\ onNodes = {}
  /\ handled = NoMessage
  /\ hostTheme \in Themes
  /\ lastKnownTheme = hostTheme
  /\ closed = FALSE
  /\ closeHandled = FALSE
  /\ lastTick = <<>>
  /\ color = [r |-> 0, g |-> 0, b |-> 0]
  /\ hexOut = <<>>

NextTheme ==
  \/ \E type \in OtherMsgTypes \cup MsgTypes :
       UiMessage([type |-> type, scale |-> 1, format |-> ""])
  \/ \E c \in Themes : ThemeChange(c)
  \/ PollTick

SpecTheme == InitTheme /\ [][NextTheme]_vars

\* ------------------------------------------------- the colour codec alone
\* the channel values a colour sample is drawn from: the whole 8-bit grid
\* for red, a few grid values for green and blue
GridSamples == {0, 2 * 9, 2 * 16, 2 * MaxChannel}

ColorInputs ==
  [r : { 2 * k : k \in 0..MaxChannel }, g : GridSamples, b : GridSamples]

InitHex ==
  /\ InitUtil
  /\ styles = [n \in 1..3 |-> PlainStyle]
  /\ InitCommon
  /\ selection = <<>>
  /\ onNodes = {}
  /\ handled = NoMessage
  /\ hostTheme = "LIGHT"
  /\ lastKnownTheme = hostTheme
  /\ closed = FALSE
  /\ closeHandled = FALSE
  /\ lastTick = <<>>
  /\ color \in ColorInputs
  /\ hexOut = <<>>

\* rgbToHex is applied to the sample
ConvertToHex ==
  /\ hexOut = <<>>
  /\ hexOut' = rgbToHex(color.r, color.g, color.b)
  /\ UNCHANGED <<rev, page, selection, invs, onNodes, watchedNode, listeners,
                 lastEvent, updates, snapshot, styles, handled, themeVars, color, utilVars>>

NextHex == ConvertToHex

SpecHex == InitHex /\ [][NextHex]_vars

\* ------------------------------------------------------------- properties
\* the kind of node n is on the allow-list of exportable kinds
Exportable(n) == NodeType(n) \in exportableTypes

PerFileTypes == {"file-ready", "zip-file-ready", "zip-batch-file"}

Files(inv) == OfTypes(inv.trace, PerFileTypes)

Calls(inv) == OfType(inv.trace, "exportAsync")

Notices(inv) == OfType(inv.trace, "notify")

Starts(inv) == OfType(inv.trace, "zip-batch-start")

Completes(inv) == OfType(inv.trace, "zip-batch-complete")

\* how often x occurs in the sequence s
Count(s, x) == Cardinality({ i \in DOMAIN s : s[i] = x })

\* the elements of s are elements of t, in the order they have in t
\* (t without duplicates)
InOrderOf(s, t) ==
  LET pos(x) == CHOOSE i \in DOMAIN t : t[i] = x IN
  /\ \A i \in DOMAIN s : s[i] \in Range(t)
  /\ \A i \in DOMAIN s : \A j \in DOMAIN s : i < j => pos(s[i]) < pos(s[j])

Singles == { inv \in BagToSet(invs) : inv.kind = "export" }

Batches == { inv \in BagToSet(invs) : inv.kind = "batch" }

\* the number of activations suspended at a host export call
InFlight ==
  LET waiting == { inv \in BagToSet(invs) : inv.pc = "await" } IN
  BagCardinality([inv \in waiting |-> CopiesIn(inv, invs)])

HintTexts ==
  { "Cannot export selected layer type(s). Try selecting frames, groups, or components.",
    "Cannot export selected layer types for zip. Try selecting frames, groups, or components." }

SummaryTexts == { "Exported file(s) successfully!", "Prepared files for zip download!" }

\* C1: in single-file export over a non-empty selection a failing element
\* never stops the loop: the activation is suspended only at an element of
\* the selection, every element passed so far has given exactly one
\* file-ready event or exactly one failure entry, and when the activation
\* ends every selected element has been passed, so that file-ready events
\* plus failure entries equal the number of selected elements.
C1_EveryElementFileOrFailure ==
  \A inv \in Singles :
    Len(inv.sel) > 0 =>
      /\ inv.pc \in {"await", "done"}
      /\ inv.pc = "await" => inv.i \in 1..Len(inv.sel)
      /\ inv.pc = "done" => inv.i = Len(inv.sel) + 1
      /\ Len(Files(inv)) + Len(inv.errorNodes) = inv.i - 1
      /\ \A j \in 1..(inv.i - 1) :
           Count(NodesOf(Files(inv)), inv.sel[j]) + Count(inv.errorNodes, inv.sel[j]) = 1
      /\ inv.pc = "done" => Len(Files(inv)) + Len(inv.errorNodes) = Len(inv.sel)

\* a finished single export in which the host call of one element raised and
\* a later element was still exported
C1_Witness ==
  \E inv \in Singles :
    /\ inv.pc = "done"
    /\ \E i \in DOMAIN inv.sel : \E j \in DOMAIN inv.sel :
         /\ i < j
         /\ inv.sel[i] \in Range(NodesOf(Calls(inv)))
         /\ inv.sel[i] \in Range(inv.errorNodes)
         /\ inv.sel[j] \in Range(NodesOf(Files(inv)))

\* C2: at any moment at most one host export call is in flight, also when a
\* second command arrives while an earlier one is suspended at an await.
C2_AtMostOneExportInFlight ==
  InFlight <= 1

\* C3: an export command (single or batch) received while the selection is
\* empty makes no host export call, shows exactly one notice and posts no
\* file-ready, batch-start or batch-complete event.
C3_EmptySelectionOnlyNotice ==
  \A inv \in BagToSet(invs) :
    Len(inv.sel) = 0 =>
      /\ inv.pc = "done"
      /\ Len(Calls(inv)) = 0
      /\ Len(Notices(inv)) = 1
      /\ Len(inv.trace) = 1

\* both a single and a batch export were requested with nothing selected
C3_Witness ==
  /\ \E inv \in Singles : Len(inv.sel) = 0
  /\ \E inv \in Batches : Len(inv.sel) = 0

\* C4: in single-file export a selected element of a kind outside the
\* allow-list gets a failure entry and no host export call; the file-ready
\* events are those of exportable elements whose call succeeded, in selection
\* order, each after its own call, and successCount equals their number.
C4_MixedSelectionSingle ==
  \A inv \in Singles :
    LET files == NodesOf(Files(inv))
    IN
    /\ \A c \in Range(NodesOf(Calls(inv))) : Exportable(c)
    /\ \A j \in 1..(inv.i - 1) :
         ~Exportable(inv.sel[j]) => Count(inv.errorNodes, inv.sel[j]) = 1
    /\ \A n \in Range(files) : Exportable(n) /\ n \notin Range(inv.errorNodes)
    /\ InOrderOf(files, inv.sel)
    /\ InOrderOf(files, NodesOf(Calls(inv)))
    /\ inv.successCount = Len(files)
    /\ inv.pc = "done" =>
         files = SelectSeq(inv.sel, LAMBDA n : n \notin Range(inv.errorNodes))

\* three selected elements, the second not exportable: two file-ready events
\* in selection order, one failure entry for the second element
C4_Witness ==
  \E inv \in Singles :
    /\ inv.pc = "done"
    /\ Len(inv.sel) = 3
    /\ ~Exportable(inv.sel[2])
    /\ inv.successCount = 2
    /\ inv.errorNodes = <<inv.sel[2]>>
    /\ NodesOf(Files(inv)) = <<inv.sel[1], inv.sel[3]>>
    /\ Len(Calls(inv)) = 2

\* C5 as stated: in batch export every selected element of a kind outside
\* the allow-list is recorded as a failure, so that the failure count of a
\* finished batch includes all of them.
C5_NonExportableRecordedAsFailure ==
  \A inv \in Batches :
    (inv.pc = "done" /\ Len(Starts(inv)) > 0) =>
      /\ \A n \in Range(inv.sel) : ~Exportable(n) => n \in Range(inv.errorNodes)
      /\ Len(inv.errorNodes) >= Cardinality({ n \in Range(inv.sel) : ~Exportable(n) })

\* C5 amended: in batch export no host export call is made for a selected
\* element of a kind outside the allow-list, and such an element is dropped
\* before the loop instead of being recorded as a failure: the failure
\* entries are exactly the elements whose host call raised, and errorCount of
\* the batch-complete event is their number.
C5_NonExportableDroppedFromBatch ==
  \A inv \in Batches :
    /\ \A c \in Range(NodesOf(Calls(inv))) : Exportable(c)
    /\ \A n \in Range(inv.errorNodes) :
         Exportable(n) /\ n \in Range(NodesOf(Calls(inv)))
    /\ inv.pc = "done" =>
         /\ Len(inv.errorNodes) = Len(Calls(inv)) - Len(Files(inv))
         /\ \A j \in DOMAIN Completes(inv) : Completes(inv)[j].b = Len(inv.errorNodes)

\* a finished batch over a selection with a non-exportable element in which
\* one host call raised: errorCount is 1 and does not count that element
C5_Witness ==
  \E inv \in Batches :
    /\ inv.pc = "done"
    /\ \E n \in Range(inv.sel) : ~Exportable(n)
    /\ Len(Completes(inv)) = 1
    /\ Completes(inv)[1].b = 1
    /\ Len(inv.errorNodes) = 1

\* C6 as stated: a batch export over a selection with exactly one exportable
\* element posts no batch-start and makes no host export call, and a batch
\* that starts has expectedFiles >= 2.
C6_OneExportableCandidateRejected ==
  \A inv \in Batches :
    /\ Cardinality({ n \in Range(inv.sel) : Exportable(n) }) = 1 =>
         Len(Starts(inv)) = 0 /\ Len(Calls(inv)) = 0
    /\ \A j \in DOMAIN Starts(inv) : Starts(inv)[j].a >= 2

\* C6 amended: a batch export over a selection of exactly one element is
\* rejected with the 'select multiple layers' notice, without batch-start
\* and without host export call; a batch that starts has at least two
\* selected elements and expectedFiles >= 1, the number of exportable ones.
C6_OneSelectedElementRejected ==
  \A inv \in Batches :
    /\ Len(inv.sel) = 1 =>
         /\ inv.pc = "done"
         /\ inv.trace = <<Notify("Select multiple layers to create a zip file", 0)>>
    /\ \A j \in DOMAIN Starts(inv) :
         /\ Len(inv.sel) >= 2
         /\ Starts(inv)[j].a >= 1
         /\ Starts(inv)[j].a = Cardinality({ n \in Range(inv.sel) : Exportable(n) })

\* a batch export requested with one exportable element selected
C6_Witness ==
  \E inv \in Batches :
    /\ Len(inv.sel) = 1
    /\ Exportable(inv.sel[1])
    /\ Len(Notices(inv)) = 1

\* C7: a batch export that posted batch-start and has ended has posted
\* exactly one batch-complete event, after all its per-file events, with
\* successCount + errorCount = expectedFiles and successCount equal to the
\* number of per-file events.
C7_BatchStartThenOneComplete ==
  \A inv \in Batches :
    LET posts == OfTypes(inv.trace, PerFileTypes \cup {"zip-batch-start", "zip-batch-complete"})
    IN
    (inv.pc = "done" /\ Len(Starts(inv)) > 0) =>
      /\ Len(Completes(inv)) = 1
      /\ posts[Len(posts)].type = "zip-batch-complete"
      /\ Completes(inv)[1].a + Completes(inv)[1].b = Starts(inv)[1].a
      /\ Completes(inv)[1].a = Len(Files(inv))

\* C8: in batch export the batch-start event, with expectedFiles and the
\* zip name's item count equal to the number of exportable selected
\* elements, is posted once, before the first host export call and before
\* every per-file and batch-complete event of that batch.
C8_BatchStartFirst ==
  \A inv \in Batches :
    LET after == PerFileTypes \cup {"exportAsync", "zip-batch-complete"}
    IN
    /\ Len(Starts(inv)) <= 1
    /\ \A j \in DOMAIN inv.trace :
         inv.trace[j].type \in after =>
           \E i \in 1..(j - 1) : inv.trace[i].type = "zip-batch-start"
    /\ \A j \in DOMAIN Starts(inv) :
         /\ Starts(inv)[j].a = Cardinality({ n \in Range(inv.sel) : Exportable(n) })
         /\ Starts(inv)[j].b = Starts(inv)[j].a

\* a batch over a selection with a non-exportable element that has posted
\* batch-start, made a host call and posted a per-file event
C8_Witness ==
  \E inv \in Batches :
    /\ Len(Starts(inv)) = 1
    /\ Len(Files(inv)) > 0
    /\ \E n \in Range(inv.sel) : ~Exportable(n)

\* C9: an export command (single or batch) that passed its precondition
\* checks and finished its loop has shown exactly one notice: the success
\* summary if an element succeeded, the 'try selecting frames, groups, or
\* components' hint otherwise.
C9_OneAggregateNotice ==
  \A inv \in BagToSet(invs) :
    (inv.pc = "done" /\ Len(inv.nodes) > 0) =>
      /\ Len(Notices(inv)) = 1
      /\ inv.successCount > 0 =>
           Notices(inv)[1].text \in SummaryTexts /\ Notices(inv)[1].a = inv.successCount
      /\ inv.successCount = 0 => Notices(inv)[1].text \in HintTexts

\* C10: no element ever has more than one 'changes' listener registered, so
\* a change of an element runs updateSelectionInfo at most once.
C10_AtMostOneChangesListener ==
  /\ \A n \in Nodes : listeners[n] <= 1
  /\ lastEvent.type = "changes" => updates <= 1

\* C17: every host export call for format SVG or PDF is made without a
\* scale constraint, every host export call for PNG or JPG with a SCALE
\* constraint whose value is the scale of the command, and the format handed
\* to the host is the format of the command.
C17_ScaleConstraintOnlyForRaster ==
  \A inv \in BagToSet(invs) :
    \A j \in DOMAIN Calls(inv) :
      LET call == Calls(inv)[j] IN
      /\ call.text = inv.format
      /\ inv.format \in {"SVG", "PDF"} => call.b = 0
      /\ inv.format \in {"PNG", "JPG"} => call.b = 1 /\ call.a = inv.scale

\* a host export call has been made for a vector format and another one,
\* with a scale other than the default, for a raster format
C17_Witness ==
  /\ \E inv \in BagToSet(invs) : inv.format = "SVG" /\ Len(Calls(inv)) > 0
  /\ \E inv \in BagToSet(invs) :
       inv.format = "JPG" /\ inv.scale = 1 /\ Len(Calls(inv)) > 0

\* ---------------------------------------------------- rgbToHsl alone
\* an idle plugin with nothing selected
InitQuiet ==
  /\ styles = [n \in 1..3 |-> PlainStyle]
  /\ InitCommon
  /\ selection = <<>>
  /\ onNodes = {}
  /\ handled = NoMessage
  /\ hostTheme = "LIGHT"
  /\ lastKnownTheme = hostTheme
  /\ closed = FALSE
  /\ closeHandled = FALSE
  /\ lastTick = <<>>

\* every grey (r = g = b) in steps of 1/510, and some chromatic samples
HslInputs ==
  { [r |-> v, g |-> v, b |-> v] : v \in 0..(2 * MaxChannel) }
    \cup [r : GridSamples, g : GridSamples, b : GridSamples]

InitHsl ==
  /\ InitQuiet
  /\ color \in HslInputs
  /\ hexOut = <<>>
  /\ InitUtil

\* rgbToHsl is applied to the sample
ConvertToHsl ==
  /\ hslOut = <<>>
  /\ hslOut' = rgbToHsl(color.r, color.g, color.b)
  /\ UNCHANGED <<rev, page, selection, invs, onNodes, watchedNode, listeners,
                 lastEvent, updates, snapshot, styles, handled, themeVars, codecVars,
                 storage, prefs, layerName, fileName>>

NextHsl == ConvertToHsl

SpecHsl == InitHsl /\ [][NextHsl]_vars

\* -------------------------------------------------- filename derivation
MaxName == 3

UpperLetters ==
  <<"A", "B", "C", "D", "E", "F", "G", "H", "I", "J", "K", "L", "M",
    "N", "O", "P", "Q", "R", "S", "T", "U", "V", "W", "X", "Y", "Z">>

LowerLetters ==
  <<"a", "b", "c", "d", "e", "f", "g", "h", "i", "j", "k", "l", "m",
    "n", "o", "p", "q", "r", "s", "t", "u", "v", "w", "x", "y", "z">>

Digits == <<"0", "1", "2", "3", "4", "5", "6", "7", "8", "9">>

\* String.prototype.toLowerCase on one character
ToLowerChar(c) ==
  IF \E i \in DOMAIN UpperLetters : UpperLetters[i] = c
    THEN LowerLetters[CHOOSE i \in DOMAIN UpperLetters : UpperLetters[i] = c]
    ELSE c

\* String.prototype.toLowerCase on a format name
ToLowerCase(str) ==
  CASE str = "PNG" -> "png"
    [] str = "JPG" -> "jpg"
    [] str = "SVG" -> "svg"
    [] str = "PDF" -> "pdf"
    [] OTHER -> str

\* variant: the pattern lacks the i flag, so capitals are replaced too
nodeNameCaseSensitive(name) ==
  [ i \in DOMAIN name |->
      IF name[i] \in Range(LowerLetters) \cup Range(Digits) THEN name[i] ELSE "_" ]

\* node.name.replace(/[^a-z0-9]/gi, '_').toLowerCase()
nodeName(name) ==
  [ i \in DOMAIN name |->
      ToLowerChar(IF name[i] \in Range(LowerLetters) \cup Range(UpperLetters) \cup Range(Digits)
                    THEN name[i] ELSE "_") ]

\* `${nodeName}_${scale}x.${format.toLowerCase()}`: the characters of the
\* name, then the pieces of the suffix
filename(name, scale, format) ==
  nodeName(name) \o <<"_", ToString(scale), "x", ".", ToLowerCase(format)>>

\* the characters display names are made of
NameChars == {"A", "q", "Z", "7", " ", "-", "_", "."}

InitName ==
  /\ InitQuiet
  /\ color = [r |-> 0, g |-> 0, b |-> 0]
  /\ hexOut = <<>>
  /\ hslOut = <<>>
  /\ storage = EmptyStorage
  /\ prefs = <<>>
  /\ layerName \in SeqsUpTo(NameChars, MaxName)
  /\ fileName = <<>>

\* the filename of a node exported at the given scale and format
DeriveName(scale, format) ==
  /\ fileName = <<>>
  /\ fileName' = <<[ scale |-> scale, format |-> format,
                     text |-> filename(layerName, scale, format) ]>>
  /\ UNCHANGED <<rev, page, selection, invs, onNodes, watchedNode, listeners,
                 lastEvent, updates, snapshot, styles, handled, themeVars, codecVars,
                 hslOut, storage, prefs, layerName>>

NextName == \E scale \in Scales : \E format \in Formats : DeriveName(scale, format)

SpecName == InitName /\ [][NextName]_vars

\* ------------------------------------------------ the preferences bridge
\* the documented default PreferenceSet
Defaults == [scale |-> 2, format |-> "PNG", fillFormat |-> "hex", strokeFormat |-> "hex"]

\* a stored value, or the default when the key is missing
OrDefault(opt, default) == IF opt = <<>> THEN default ELSE opt[1]

\* variant: a failed storage read propagates to the caller
loadUncaught(st) ==
  [ raised |-> st.fails,
    value |-> [ scale |-> OrDefault(st.scale, Defaults.scale),
                format |-> OrDefault(st.format, Defaults.format),
                fillFormat |-> OrDefault(st.fillFormat, Defaults.fillFormat),
                strokeFormat |-> OrDefault(st.strokeFormat, Defaults.strokeFormat) ] ]

\* load(): reads the four keys; a storage error is caught and the defaults
\* are substituted
load(st) ==
  IF st.fails THEN [raised |-> FALSE, value |-> Defaults]
  ELSE [ raised |-> FALSE,
         value |-> [ scale |-> OrDefault(st.scale, Defaults.scale),
                     format |-> OrDefault(st.format, Defaults.format),
                     fillFormat |-> OrDefault(st.fillFormat, Defaults.fillFormat),
                     strokeFormat |-> OrDefault(st.strokeFormat, Defaults.strokeFormat) ] ]

\* what the storage may hold when the session starts, and whether reading
\* it fails
StorageInputs ==
  [ fails : BOOLEAN,
    scale : {<<>>, <<1>>, <<3>>},
    format : {<<>>, <<"SVG">>},
    fillFormat : {<<>>, <<"rgb">>},
    strokeFormat : {<<>>, <<"hsl">>} ]

InitPrefs ==
  /\ InitQuiet
  /\ color = [r |-> 0, g |-> 0, b |-> 0]
  /\ hexOut = <<>>
  /\ hslOut = <<>>
  /\ storage \in StorageInputs
  /\ prefs = <<>>
  /\ layerName = <<>>
  /\ fileName = <<>>

\* the preferences are loaded, once per session
Load ==
  /\ prefs = <<>>
  /\ prefs' = <<load(storage)>>
  /\ UNCHANGED <<rev, page, selection, invs, onNodes, watchedNode, listeners,
                 lastEvent, updates, snapshot, styles, handled, themeVars, codecVars,
                 hslOut, storage, layerName, fileName>>

NextPrefs == Load

SpecPrefs == InitPrefs /\ [][NextPrefs]_vars

\* the channel value (in 510ths) two upper-case hex characters stand for
HexPairValue(c1, c2) ==
  LET digit(c) == (CHOOSE d \in DOMAIN UpperDigits : UpperDigits[d] = c) - 1 IN
  2 * (16 * digit(c1) + digit(c2))

\* C20: on the 8-bit grid (r, g, b of the form k/255) the string rgbToHex
\* returns is '#' followed by six upper-case hex digits, decoding it gives
\* back the channels, and encoding the decoded channels gives the same
\* string; (1, 0, 0) gives '#FF0000'.
C20_HexRoundTrip ==
  hexOut # <<>> =>
    /\ Len(hexOut) = 7
    /\ hexOut[1] = "#"
    /\ \A i \in 2..7 : hexOut[i] \in Range(UpperDigits)
    /\ LET r == HexPairValue(hexOut[2], hexOut[3])
           g == HexPairValue(hexOut[4], hexOut[5])
           b == HexPairValue(hexOut[6], hexOut[7])
       IN /\ <<r, g, b>> = <<color.r, color.g, color.b>>
          /\ rgbToHex(r, g, b) = hexOut
    /\ color = [r |-> 2 * MaxChannel, g |-> 0, b |-> 0] =>
         hexOut = <<"#", "F", "F", "0", "0", "0", "0">>

\* a sample with a one-digit channel and a channel with a letter digit has
\* been encoded
C20_Witness ==
  /\ hexOut # <<>>
  /\ color.r = 2 * 171
  /\ color.g = 2 * 9
  /\ hexOut = <<"#", "A", "B", "0", "9", "F", "F">>

\* the positions of the solid paints of a list
SolidAt(items) == { i \in DOMAIN items : items[i].type = "SOLID" }

\* the single selected node, when the posted snapshot is about one
Single == selection[1]

\* C11: a snapshot of the current selection is posted once at startup, once
\* per 'selectionchange' notification and once per 'get-selection' message
\* of the UI.
C11_SnapshotOnEveryTrigger ==
  /\ lastEvent.type \in {"startup", "selectionchange", "get-selection"} =>
       /\ updates = 1
       /\ snapshot = updateSelectionInfo(selection)
  /\ handled.type = "get-selection" =>
       handled.posts = <<Post("selection-change", <<>>)>>

\* C12: a posted snapshot has a fill (stroke) colour only if it is about one
\* element with one solid fill (stroke); a snapshot of no element or of
\* several has no fill colour, no stroke colour and no shadow.
C12_ColorsOnlyForSingleMatch ==
  /\ snapshot.selectionCount = Len(selection)
  /\ snapshot.fillColor # <<>> =>
       snapshot.selectionCount = 1 /\ snapshot.fillCount = 1
  /\ snapshot.strokeColor # <<>> =>
       snapshot.selectionCount = 1 /\ snapshot.strokeCount = 1
  /\ snapshot.selectionCount # 1 =>
       /\ snapshot.fillColor = <<>>
       /\ snapshot.strokeColor = <<>>
       /\ snapshot.shadow = <<>>

\* two elements are selected, the first of which has one solid fill, one
\* solid stroke and a shadow
C12_Witness ==
  /\ selection = <<1, 3>>
  /\ styles[1] = BaseStyle
  /\ lastEvent.type = "selectionchange"
  /\ snapshot.selectionCount = 2

\* how a snapshot's count and colour relate to a paint list
CountsSolid(items, count, c) ==
  /\ count = Cardinality(SolidAt(items))
  /\ Cardinality(SolidAt(items)) = 2 => c = <<>>
  /\ Cardinality(SolidAt(items)) = 1 =>
       /\ c # <<>>
       /\ LET paint == items[CHOOSE i \in SolidAt(items) : TRUE] IN
          <<c[1].r, c[1].g, c[1].b>> =
            <<paint.color[1].r, paint.color[1].g, paint.color[1].b>>

\* C13: for one selected element fillCount is the number of its solid fills;
\* two solid fills give fillCount 2 and no fillColor, one gives fillCount 1
\* and a fillColor with that fill's r, g, b; the same for strokes.
C13_CountAndColorOfSolidPaints ==
  Len(selection) = 1 =>
    /\ styles[Single].fills.isArray =>
         CountsSolid(styles[Single].fills.items, snapshot.fillCount, snapshot.fillColor)
    /\ styles[Single].strokes.isArray =>
         CountsSolid(styles[Single].strokes.items, snapshot.strokeCount, snapshot.strokeColor)

\* the selected element has two solid fills
C13_Witness ==
  /\ lastEvent.type = "selectionchange"
  /\ selection = <<1>>
  /\ Cardinality(SolidAt(styles[1].fills.items)) = 2
  /\ snapshot.fillCount = 2
  /\ snapshot.strokeCount = 1
  /\ snapshot.strokeColor # <<>>

\* the positions of the solid paints that are not hidden
VisibleSolidAt(items) == { i \in SolidAt(items) : items[i].visible # "false" }

\* C14 as stated: only solid paints whose visible flag is not false are
\* counted, and a colour is emitted exactly when there is one such paint.
C14_ExactlyOneVisibleSolid ==
  Len(selection) = 1 =>
    /\ styles[Single].fills.isArray =>
         /\ snapshot.fillCount = Cardinality(VisibleSolidAt(styles[Single].fills.items))
         /\ snapshot.fillColor # <<>> <=>
              Cardinality(VisibleSolidAt(styles[Single].fills.items)) = 1
    /\ styles[Single].strokes.isArray =>
         /\ snapshot.strokeCount = Cardinality(VisibleSolidAt(styles[Single].strokes.items))
         /\ snapshot.strokeColor # <<>> <=>
              Cardinality(VisibleSolidAt(styles[Single].strokes.items)) = 1

\* C14: the fill and stroke filters are "exactly one solid" filters: every
\* solid paint is counted, hidden or not, and a colour is emitted exactly
\* when the element has exactly one solid fill (stroke); that one may be
\* hidden.
C14_ExactlyOneSolidHiddenOrNot ==
  Len(selection) = 1 =>
    /\ styles[Single].fills.isArray =>
         /\ snapshot.fillCount = Cardinality(SolidAt(styles[Single].fills.items))
         /\ snapshot.fillColor # <<>> <=>
              Cardinality(SolidAt(styles[Single].fills.items)) = 1
    /\ styles[Single].strokes.isArray =>
         /\ snapshot.strokeCount = Cardinality(SolidAt(styles[Single].strokes.items))
         /\ snapshot.strokeColor # <<>> <=>
              Cardinality(SolidAt(styles[Single].strokes.items)) = 1

\* the only fill of the selected element is a hidden solid paint
C14_Witness ==
  /\ lastEvent.type = "selectionchange"
  /\ selection = <<1>>
  /\ styles[1].fills.items = <<Paint("SOLID", "false", <<Teal>>)>>
  /\ snapshot.fillCount = 1
  /\ snapshot.fillColor # <<>>

\* C15: 'copy-fill-color' posts a copy-to-clipboard message only when the
\* first selected element has exactly one solid fill.
C15_CopyOnlyWithOneSolidFill ==
  handled.type = "copy-fill-color" /\ handled.posts # <<>> =>
    /\ Len(selection) >= 1
    /\ Cardinality(SolidAt(styles[selection[1]].fills.items)) = 1

\* the positions of the effects that count as shadows
ShadowAt(items) ==
  { i \in DOMAIN items :
      /\ items[i].type \in {"DROP_SHADOW", "INNER_SHADOW"}
      /\ items[i].visible # "false"
      /\ items[i].color # <<>> }

\* the k-th smallest member of a set of positions
Kth(idx, k) == CHOOSE i \in idx : Cardinality({ j \in idx : j < i }) = k - 1

\* the shadow list of the posted snapshot (null read as the empty list)
ShadowList == IF snapshot.shadow = <<>> THEN <<>> ELSE snapshot.shadow[1]

\* C16: for one selected element the shadow list holds, in source order, one
\* entry for each effect of kind DROP_SHADOW or INNER_SHADOW that is not
\* hidden and has a colour, and nothing else; an entry has kind INNER or
\* OUTER and its x, y, blur and spread are 0 where the effect has none.
C16_AllShadowsInSourceOrder ==
  Len(selection) = 1 /\ styles[Single].effects.isArray =>
    LET items == styles[Single].effects.items IN
    /\ Len(ShadowList) = Cardinality(ShadowAt(items))
    /\ \A k \in DOMAIN ShadowList :
         LET e == items[Kth(ShadowAt(items), k)]
             d == ShadowList[k]
         IN /\ d.type = (IF e.type = "INNER_SHADOW" THEN "INNER" ELSE "OUTER")
            /\ d.color = e.color[1]
            /\ d.x = (IF e.offset = <<>> THEN 0 ELSE e.offset[1].x)
            /\ d.y = (IF e.offset = <<>> THEN 0 ELSE e.offset[1].y)
            /\ d.blur = (IF e.radius = <<>> THEN 0 ELSE e.radius[1])
            /\ d.spread = (IF e.spread = <<>> THEN 0 ELSE e.spread[1])

\* the selected element has an inner shadow without offset, radius and
\* spread followed by a drop shadow, and both are reported
C16_Witness ==
  /\ lastEvent.type = "selectionchange"
  /\ selection = <<1>>
  /\ Len(styles[1].effects.items) = 2
  /\ styles[1].effects.items[1].type = "INNER_SHADOW"
  /\ styles[1].effects.items[2].type = "DROP_SHADOW"
  /\ styles[1].effects.items[2].visible = "true"
  /\ Len(ShadowList) = 2
  /\ ShadowList[1].blur = 0

\* C18: once a 'close-plugin' message has been handled the theme poll
\* callback never runs again (so no 'theme-changed' message is posted).
C18_NoPollAfterClose ==
  lastTick # <<>> => ~lastTick[1].afterClose

\* C19: a message of a type the handler has no branch for writes one log
\* entry, posts nothing and changes no plugin state.
C19_UnknownMessageLoggedOnly ==
  handled.type # "" /\ handled.type \notin Recognised(rev) =>
    /\ handled.logs = 1
    /\ handled.posts = <<>>
    /\ ~handled.changed

\* C21: for a grey r = g = b, rgbToHsl gives hue 0, saturation 0% and as
\* lightness the percentage nearest to the channel value.
C21_AchromaticHsl ==
  hslOut # <<>> /\ color.r = color.g /\ color.g = color.b =>
    /\ hslOut[2] = 0
    /\ hslOut[3] = 0
    /\ hslOut[4] \in 0..100
    /\ 2 * MaxChannel * (2 * hslOut[4] - 1) <= 200 * color.r
    /\ 200 * color.r < 2 * MaxChannel * (2 * hslOut[4] + 1)

\* a grey whose percentage rounds up has been converted
C21_Witness ==
  /\ color = [r |-> 2 * 129, g |-> 2 * 129, b |-> 2 * 129]
  /\ hslOut = <<"hsl", 0, 0, 51>>

\* C22: load() never raises; after a failed storage read it returns
\* scale 2, format PNG, fillFormat hex, strokeFormat hex, and otherwise each
\* missing key gets its own default.
C22_LoadFallsBackToDefaults ==
  prefs # <<>> =>
    /\ ~prefs[1].raised
    /\ storage.fails =>
         prefs[1].value =
           [scale |-> 2, format |-> "PNG", fillFormat |-> "hex", strokeFormat |-> "hex"]
    /\ ~storage.fails =>
         /\ storage.scale = <<>> => prefs[1].value.scale = 2
         /\ storage.format = <<>> => prefs[1].value.format = "PNG"
         /\ storage.fillFormat = <<>> => prefs[1].value.fillFormat = "hex"
         /\ storage.strokeFormat = <<>> => prefs[1].value.strokeFormat = "hex"

\* the preferences have been loaded from a storage whose read fails although
\* keys are stored
C22_Witness ==
  /\ prefs # <<>>
  /\ storage.fails
  /\ storage.scale = <<3>>
  /\ storage.format = <<"SVG">>

\* C23: a batch export over two or more selected elements none of which is
\* exportable shows the one notice 'No exportable layers selected', makes no
\* host export call and posts no batch-start, per-file or batch-complete
\* event.
C23_NoExportableAbortsBatch ==
  \A inv \in Batches :
    Len(inv.sel) >= 2 /\ (\A j \in DOMAIN inv.sel : ~Exportable(inv.sel[j])) =>
      /\ inv.pc = "done"
      /\ Len(inv.trace) = 1
      /\ Len(Notices(inv)) = 1
      /\ Notices(inv)[1].text = "No exportable layers selected"
      /\ Len(Calls(inv)) = 0
      /\ Len(Starts(inv)) + Len(Files(inv)) + Len(Completes(inv)) = 0

\* a batch export was requested while the slice and the sticky note were
\* selected
C23_Witness ==
  \E inv \in Batches :
    /\ inv.sel = <<1, 2>>
    /\ ~Exportable(1)
    /\ ~Exportable(2)
    /\ inv.pc = "done"

\* C24: once the selection has moved away from an element (to another
\* element, to several, or to nothing), an edit of that element runs
\* updateSelectionInfo no more and posts no selection-change message.
C24_NoUpdateForDeselectedNode ==
  lastEvent.type = "changes" /\ selection # <<lastEvent.node>> => updates = 0

\* what a poll tick must have posted, given what it read
TickPostsIffChanged ==
  lastTick # <<>> =>
    /\ lastTick[1].posts # <<>> <=> lastTick[1].host # lastTick[1].known
    /\ lastTick[1].posts # <<>> =>
         lastTick[1].posts =
           <<[ type |-> "theme-changed",
               value |-> <<IF lastTick[1].host = "DARK" THEN "dark" ELSE "light">> ]>>

\* C25: a poll tick posts one theme-changed message, carrying the host
\* theme, if and only if the host theme differs from lastKnownTheme, and after
\* the tick lastKnownTheme is the host theme; nothing else changes
\* lastKnownTheme.
C25_PollPostsIffThemeChanged ==
  /\ []TickPostsIffChanged
  /\ [][ /\ lastTick' # lastTick => lastKnownTheme' = hostTheme'
         /\ lastTick' = lastTick => lastKnownTheme' = lastKnownTheme ]_vars

\* a tick has found the theme changed to dark and has posted it
C25_Witness ==
  /\ lastTick # <<>>
  /\ lastTick[1].known = "LIGHT"
  /\ lastTick[1].host = "DARK"
  /\ lastTick[1].posts # <<>>
  /\ lastKnownTheme = "DARK"

\* what a character of a display name becomes in a filename
SafeChar ==
  [ c \in NameChars |->
      CASE c = "A" -> "a"
        [] c = "Z" -> "z"
        [] c = "q" -> "q"
        [] c = "7" -> "7"
        [] OTHER -> "_" ]

\* C26: a filename is the display name with every character outside
\* [A-Za-z0-9] replaced by '_' and the rest lower-cased (as long as the name),
\* followed by '_', the scale, 'x.' and the lower-cased format.
C26_FilenameIsSanitizedName ==
  fileName # <<>> =>
    LET text == fileName[1].text
        n == Len(layerName)
    IN /\ Len(text) = n + 5
       /\ \A i \in 1..n : text[i] = SafeChar[layerName[i]]
       /\ text[n + 1] = "_"
       /\ text[n + 2] = (IF fileName[1].scale = 1 THEN "1" ELSE "2")
       /\ text[n + 3] = "x"
       /\ text[n + 4] = "."
       /\ text[n + 5] =
            (CASE fileName[1].format = "PNG" -> "png"
               [] fileName[1].format = "JPG" -> "jpg"
               [] fileName[1].format = "SVG" -> "svg"
               [] fileName[1].format = "PDF" -> "pdf")

\* the name 'A 7' has been turned into a filename for a JPG at scale 1
C26_Witness ==
  /\ layerName = <<"A", " ", "7">>
  /\ fileName # <<>>
  /\ fileName[1].text = <<"a", "_", "7", "_", "1", "x", ".", "jpg">>

\* the elements a command has to work on, given the selection it started on
Expected(inv) ==
  IF inv.kind = "export" THEN inv.sel
  ELSE IF Len(inv.sel) >= 2 THEN SelectSeq(inv.sel, Exportable)
  ELSE <<>>

OpenBatches ==
  LET open == { inv \in Batches : Len(Starts(inv)) > 0 /\ Len(Completes(inv)) = 0 } IN
  BagCardinality([inv \in open |-> CopiesIn(inv, invs)])

\* C28: batches do not interleave on the way to the UI: while one batch has
\* posted its batch-start and not yet its batch-complete no other batch-start
\* has been posted, and a batch posts at most expectedFiles per-file events.
C28_BatchesDoNotInterleave ==
  /\ OpenBatches <= 1
  /\ \A inv \in Batches :
       Len(Starts(inv)) > 0 => Len(Files(inv)) <= Starts(inv)[1].a

====
